---- MODULE Spec2Model ----
(***************************************************************************)
(* A model of metar.py: the Metars station set and its update cycle, the   *)
(* Metar record with its derived fields and renderers, Sky / CloudLayer    *)
(* ceiling selection and Wind rendering.                                   *)
(***************************************************************************)
EXTENDS Integers, Sequences, FiniteSets, TLC

VARIABLES
    \* ---- Metars (metar.py 260-325) ----
    obj,            \* "none" before Metars(...), "live" once built, "failed" if __init__ raised
    airports,       \* self.airports: the effective station list
    metars_dict,    \* self.metars_dict: station id -> Metar
    call,           \* the call last made on the set, with its argument
    resp,           \* the feed's answer to the last requests.get
    ret,            \* what the last call returned: "True", "False", or the error raised
    lastRequest,    \* the station list named by the last requests.get
    nRequests,      \* number of requests.get issued
    nUpdates,       \* number of update() invocations (the constructor's included)
    lastOk,         \* history: the ids returned by the latest update() that returned True
    dropped,        \* history: stations some successful update() requested and did not get
    everReturned,   \* history: stations the feed has returned to this set
    \* ---- Wind (metar.py 32-54) ----
    wind,           \* a Wind object, or NoWind before Wind(...)
    wind_text,      \* the last value of repr(wind), or NoText
    \* ---- Sky / CloudLayer (metar.py 57-136) ----
    sky,            \* a Sky object, NoSky before Sky(...), or the error Sky(...) raised
    sky_ceiling,    \* the last result of sky.ceiling(): the position of the layer it
                    \* returned (0 for None), or NotCalled
    sky_col,        \* the last result of sky.ceiling_or_lowest(), or NoText
    \* ---- Metar (metar.py 139-257) ----
    now,            \* datetime.utcnow(), in seconds
    metar,          \* a Metar object, NoMetar before Metar(...), or the error it raised
    stamp,          \* the last result of metar.format_timestamp(), or NoStamp
    vis_text,       \* the last result of metar.format_vis(), or NoVisText
    line            \* the last result of metar.text_out(), or NoLine

setVars == <<obj, airports, metars_dict, call, resp, ret, lastRequest,
             nRequests, nUpdates, lastOk, dropped, everReturned>>

windVars == <<wind, wind_text>>

skyVars == <<sky, sky_ceiling, sky_col>>

metarVars == <<now, metar, stamp, vis_text, line>>

vars == <<setVars, windVars, skyVars, metarVars>>

-----------------------------------------------------------------------------
(* Generic helpers *)

Range(s) == {s[i] : i \in DOMAIN s}

SeqsUpTo(S, n) == UNION {[1..k -> S] : k \in 0..n}

NoDupSeqs(S) == {q \in SeqsUpTo(S, Cardinality(S)) :
                    \A i, j \in DOMAIN q : i # j => q[i] # q[j]}

\* text is a sequence of one-character strings
NoText == <<"<none>">>

\* the result of a call that raised instead of returning text
RaisedText == <<"<raised>">>

\* marks a result variable whose method has not been called yet
NotCalled == 0 - 1

DigitChars == <<"0", "1", "2", "3", "4", "5", "6", "7", "8", "9">>

\* str(n) for an int n >= 0
RECURSIVE Dec(_)
Dec(n) == IF n < 10 THEN <<DigitChars[n + 1]>>
          ELSE Dec(n \div 10) \o <<DigitChars[(n % 10) + 1]>>

RECURSIVE PadLeft(_, _, _)
PadLeft(t, w, c) == IF Len(t) >= w THEN t ELSE PadLeft(<<c>> \o t, w, c)

RECURSIVE PadRight(_, _)
PadRight(t, w) == IF Len(t) >= w THEN t ELSE PadRight(t \o <<" ">>, w)

\* f'{n:0w}' for an int n >= 0
Fmt0(n, w) == PadLeft(Dec(n), w, "0")

-----------------------------------------------------------------------------
(* Bounds *)

MaxLen == 3        \* longest list handed to Metars(...)
MaxUpdates == 2    \* update() invocations explored on one set
MaxSpeed == 11     \* wind speeds 0..MaxSpeed (and 120)
MaxGustOver == 2   \* a gust exceeds the speed by 1..MaxGustOver
MaxLayers == 3     \* cloud layers in one sky_condition
MaxClockMin == 1500  \* minutes of clock time explored after a Metar is built
MaxVis == 1000     \* visibilities 0.00 .. 10.00 statute miles, in hundredths

Stations == {"KA", "KB", "KC"}   \* station ids the feed knows

-----------------------------------------------------------------------------
(* Metars.__init__ argument: one value or a list of values; a value is a   *)
(* str (possibly empty) or something else (an int, None, ...).             *)

Elems == [isStr : {TRUE}, v : Stations \cup {""}] \cup {[isStr |-> FALSE, v |-> "7"]}

Args == [isList : {TRUE}, items : SeqsUpTo(Elems, MaxLen)]
        \cup [isList : {FALSE}, items : {<<e>> : e \in Elems}]

NoCall == [op |-> "none"]

\* a variant of the filtering below that keeps the elements that are no str
RECURSIVE KeepAll(_)
KeepAll(items) ==
    IF items = <<>> THEN <<>>
    ELSE <<Head(items).v>> \o KeepAll(Tail(items))

\* lines 265-272: self.airports after the isinstance filtering
RECURSIVE InitAirports(_)
InitAirports(items) ==
    IF items = <<>> THEN <<>>
    ELSE IF Head(items).isStr
         THEN <<Head(items).v>> \o InitAirports(Tail(items))
         ELSE InitAirports(Tail(items))

-----------------------------------------------------------------------------
(* The feed. A response is a failure, or a success carrying the METAR      *)
(* records of some of the requested stations, each station at most once    *)
(* (mostRecentForEachStation=true), in the feed's order. A record is       *)
(* `bad` when Metar(record) raises on it (e.g. a sky layer other than      *)
(* clear without a numeric @cloud_base_ft_agl, line 67).                   *)

Records(ids, gen) ==
    {[i \in DOMAIN ids |-> [station_id |-> ids[i], gen |-> gen, bad |-> b[i]]] :
        b \in [DOMAIN ids -> BOOLEAN]}

Responses(request, gen) ==
    {[ok |-> FALSE, results |-> <<>>]}
    \cup {[ok |-> TRUE, results |-> rs] :
            rs \in UNION {Records(ids, gen) : ids \in NoDupSeqs(Range(request) \cap Stations)}}

StationIds(results) == [i \in DOMAIN results |-> results[i].station_id]

EmptyDict == [s \in {} |-> 0]

\* self.metars_dict[station_id] = Metar(result)   (lines 302, 306)
Store(d, r) ==
    [s \in DOMAIN d \cup {r.station_id} |->
        IF s = r.station_id THEN [station_id |-> r.station_id, gen |-> r.gen] ELSE d[s]]

\* the loop of lines 300-306: records are stored in order until one raises
RECURSIVE StoreResults(_, _)
StoreResults(d, results) ==
    IF results = <<>> THEN [dict |-> d, raised |-> FALSE]
    ELSE IF Head(results).bad THEN [dict |-> d, raised |-> TRUE]
    ELSE StoreResults(Store(d, Head(results)), Tail(results))

\* a variant that forgets line 308 (self.airports = successful_updates)
UpdateNoNarrow(ap, d, r) ==
    IF ~r.ok \/ Len(r.results) = 0
    THEN [airports |-> ap, metars_dict |-> d, ret |-> "False"]
    ELSE LET st == StoreResults(d, r.results) IN
         IF st.raised
         THEN [airports |-> ap, metars_dict |-> st.dict, ret |-> "ParseError"]
         ELSE [airports |-> ap, metars_dict |-> st.dict, ret |-> "True"]

\* a variant that empties the station list when the feed returns nothing
UpdateClearOnZero(ap, d, r) ==
    IF ~r.ok
    THEN [airports |-> ap, metars_dict |-> d, ret |-> "False"]
    ELSE IF Len(r.results) = 0
    THEN [airports |-> <<>>, metars_dict |-> d, ret |-> "False"]
    ELSE LET st == StoreResults(d, r.results) IN
         IF st.raised
         THEN [airports |-> ap, metars_dict |-> st.dict, ret |-> "ParseError"]
         ELSE [airports |-> StationIds(r.results), metars_dict |-> st.dict, ret |-> "True"]

\* a variant whose singleton branch (line 302) does not store the record
UpdateSingletonNotStored(ap, d, r) ==
    IF ~r.ok \/ Len(r.results) = 0
    THEN [airports |-> ap, metars_dict |-> d, ret |-> "False"]
    ELSE LET st == IF Len(r.results) = 1 /\ ~r.results[1].bad
                   THEN [dict |-> d, raised |-> FALSE]
                   ELSE StoreResults(d, r.results) IN
         IF st.raised
         THEN [airports |-> ap, metars_dict |-> st.dict, ret |-> "ParseError"]
         ELSE [airports |-> StationIds(r.results), metars_dict |-> st.dict, ret |-> "True"]

\* Metars.update, lines 289-312, on station list ap, map d and feed response r
update(ap, d, r) ==
    IF ~r.ok \/ Len(r.results) = 0
    THEN [airports |-> ap, metars_dict |-> d, ret |-> "False"]
    ELSE LET st == StoreResults(d, r.results) IN
         IF st.raised
         THEN [airports |-> ap, metars_dict |-> st.dict, ret |-> "ParseError"]
         ELSE [airports |-> StationIds(r.results), metars_dict |-> st.dict, ret |-> "True"]

\* line 288: the one request of an update(), naming ' '.join(self.airports)
RequestFor(ap) == ap

\* bookkeeping of the history variables for one update() on list ap answered by r
History(ap, r, out) ==
    /\ lastOk' = IF out.ret = "True" THEN [seen |-> TRUE, ids |-> StationIds(r.results)]
                 ELSE lastOk
    /\ dropped' = IF out.ret = "True"
                  THEN dropped \cup (Range(ap) \ Range(StationIds(r.results)))
                  ELSE dropped
    /\ everReturned' = everReturned \cup Range(StationIds(r.results))

-----------------------------------------------------------------------------
(* Wind *)

NoWind == [dir |-> 0 - 1, speed |-> 0 - 1, gust |-> [present |-> FALSE, text |-> <<>>]]

NoGust == [present |-> FALSE, text |-> <<>>]

Dirs == {0, 1, 9, 10, 90, 99, 100, 270, 360}

\* the speeds explored, one of them of three digits
Speeds == 0..MaxSpeed \cup {120}

\* the gusts the feed reports for a speed: none, or the text of a greater number
Gusts(speed) == {NoGust} \cup {[present |-> TRUE, text |-> Dec(speed + k)] : k \in 1..MaxGustOver}

\* Wind.__init__: direction and speed through int(), the gust kept as given
WindNew(direction, speed, gust) == [dir |-> direction, speed |-> speed, gust |-> gust]

\* Python's `not self.gust`: None and the empty string are false
NotGust(w) == ~w.gust.present \/ w.gust.text = <<>>

\* Wind.format_dir
format_dir(w) == IF w.dir # 0 THEN Fmt0(w.dir, 3) ELSE <<"V", "R", "B">>

\* a variant that tests the speed before the gust
WindReprCalmFirst(w) ==
    IF w.speed = 0 THEN <<"C", "A", "L", "M">>
    ELSE IF NotGust(w) THEN format_dir(w) \o <<"@">> \o Fmt0(w.speed, 2)
    ELSE format_dir(w) \o <<"@">> \o Fmt0(w.speed, 2) \o <<"G">> \o w.gust.text

\* Wind.__repr__
WindRepr(w) ==
    IF NotGust(w)
    THEN IF w.speed = 0 THEN <<"C", "A", "L", "M">>
         ELSE format_dir(w) \o <<"@">> \o Fmt0(w.speed, 2)
    ELSE format_dir(w) \o <<"@">> \o Fmt0(w.speed, 2) \o <<"G">> \o w.gust.text

-----------------------------------------------------------------------------
(* CloudLayer and Sky *)

NoAlt == 0 - 1            \* self.alt = None
SentinelAlt == 999999     \* the altitude of the placeholder layer of Sky.ceiling

CLEAR == {"CLR", "SKC", "CAVOK"}

NO_LAYER == {"CLR", "SKC", "CAVOK", "OVX"}

Covers == CLEAR \cup {"FEW", "SCT", "BKN", "OVC", "OVX"}

Alts == {1200, 2000, 3500}

\* one sky_condition entry of the feed: @sky_cover and @cloud_base_ft_agl,
\* the latter possibly missing
RawLayers == [cover : Covers \ CLEAR, hasBase : {TRUE}, base : Alts]
             \cup [cover : CLEAR \cup {"BKN"}, hasBase : {FALSE}, base : {0}]

\* the sky_condition values explored: 1..MaxLayers entries, a clear-equivalent
\* entry only in first place (a report of clear skies has it as its first
\* entry; behind another layer its missing altitude makes lowest() raise)
RawSkies == {<<f>> \o rest : f \in RawLayers,
                rest \in SeqsUpTo({l \in RawLayers : l.cover \notin CLEAR}, MaxLayers - 1)}

\* CloudLayer.__init__ raises KeyError when a layer that is not clear has no base
LayerRaises(sc) == sc.cover \notin CLEAR /\ ~sc.hasBase

\* CloudLayer.__init__
CloudLayer(sc) == [cover |-> sc.cover,
                   alt |-> IF sc.cover \in CLEAR THEN NoAlt ELSE sc.base]

\* the characters of a sky cover code
CoverText(c) ==
    CASE c = "CLR" -> <<"C", "L", "R">>
      [] c = "SKC" -> <<"S", "K", "C">>
      [] c = "CAVOK" -> <<"C", "A", "V", "O", "K">>
      [] c = "FEW" -> <<"F", "E", "W">>
      [] c = "SCT" -> <<"S", "C", "T">>
      [] c = "BKN" -> <<"B", "K", "N">>
      [] c = "OVC" -> <<"O", "V", "C">>
      [] c = "OVX" -> <<"O", "V", "X">>

\* CloudLayer.__repr__
LayerRepr(l) ==
    IF l.cover \in NO_LAYER THEN CoverText(l.cover)
    ELSE CoverText(l.cover) \o <<"@">> \o Dec(l.alt)

is_ceiling(l) == l.cover = "OVC" \/ l.cover = "BKN" \/ l.cover = "OVX"

\* Sky.__init__ on a list of entries
SkyNew(raw) ==
    IF \E i \in DOMAIN raw : LayerRaises(raw[i]) THEN [err |-> "KeyError", layers |-> <<>>]
    ELSE [err |-> "none", layers |-> [i \in DOMAIN raw |-> CloudLayer(raw[i])]]

NoSky == [err |-> "nosky", layers |-> <<>>]

\* the result of lowest() when it raises: `layer.alt < lowest.alt` is a
\* TypeError when layer.alt is None
Raises == 0 - 2

\* the loop of Sky.lowest: the position of the lowest layer so far
RECURSIVE LowestScan(_, _, _)
LowestScan(layers, i, best) ==
    IF i > Len(layers) THEN best
    ELSE IF layers[i].alt = NoAlt THEN Raises
    ELSE IF layers[i].alt < layers[best].alt THEN LowestScan(layers, i + 1, i)
    ELSE LowestScan(layers, i + 1, best)

\* Sky.lowest: the position of the layer returned, 0 for None
lowest(layers) ==
    IF layers[1].cover \in CLEAR THEN 0 ELSE LowestScan(layers, 1, 1)

\* a variant of the loop of Sky.ceiling that takes a later layer on a tie (<=)
RECURSIVE CeilingScanLastOnTie(_, _, _, _)
CeilingScanLastOnTie(layers, i, best, bestAlt) ==
    IF i > Len(layers) THEN best
    ELSE IF is_ceiling(layers[i]) /\ layers[i].alt <= bestAlt
         THEN CeilingScanLastOnTie(layers, i + 1, i, layers[i].alt)
         ELSE CeilingScanLastOnTie(layers, i + 1, best, bestAlt)

\* the loop of Sky.ceiling: the position of the ceiling so far (0: the placeholder)
RECURSIVE CeilingScan(_, _, _, _)
CeilingScan(layers, i, best, bestAlt) ==
    IF i > Len(layers) THEN best
    ELSE IF is_ceiling(layers[i]) /\ layers[i].alt < bestAlt
         THEN CeilingScan(layers, i + 1, i, layers[i].alt)
         ELSE CeilingScan(layers, i + 1, best, bestAlt)

\* Sky.ceiling: the position of the layer returned, 0 for None
ceiling(layers) ==
    IF layers[1].cover \in CLEAR THEN 0 ELSE CeilingScan(layers, 1, 0, SentinelAlt)

\* Sky.ceiling_or_lowest
ceiling_or_lowest(layers) ==
    IF ceiling(layers) # 0 THEN LayerRepr(layers[ceiling(layers)])
    ELSE IF lowest(layers) = Raises THEN RaisedText
    ELSE IF lowest(layers) # 0 THEN LayerRepr(layers[lowest(layers)])
    ELSE <<"C", "L", "R">>

-----------------------------------------------------------------------------
(* Metar. Floats are carried in hundredths: a visibility of 0.25 is 25, an  *)
(* altimeter setting of 29.92 is 2992. Times are seconds.                   *)

TIMESTAMP_AGE_STALE == 20
TIMESTAMP_AGE_OLD == 60

SecondsPerDay == 86400

\* the optional fields of a feed record (those Metar.__init__ tests with `in`,
\* and wind_dir_degrees, which it reads whenever wind_speed_kt is there)
OptionalKeys == {"temp_c", "dewpoint_c", "wind_dir_degrees", "wind_speed_kt",
                 "wind_gust_kt", "visibility_statute_mi", "altim_in_hg",
                 "sky_condition", "wx_string"}

\* the values the explored records carry in the fields they have; rh is
\* int(100 * exp(17.625*10/253.04) / exp(17.625*20/263.04)), altim and vis are
\* in hundredths, lag is the seconds between the observation and the parse
Sample == [temp |-> 20, dewpt |-> 10, rh |-> 52, altim |-> 2992,
           wind_dir |-> 90, wind_speed |-> 10, gust |-> 20, vis |-> 600, lag |-> 600,
           sky |-> <<[cover |-> "SCT", hasBase |-> TRUE, base |-> 2000],
                     [cover |-> "BKN", hasBase |-> TRUE, base |-> 3500]>>,
           wx |-> <<"-", "R", "A">>]

NoVis == 0 - 1            \* self.vis = None
NoNum == 0 - 1000         \* self.temp / self.dewpt / self.alt = None

\* a feed record: the optional keys it has, its visibility and observation time
RawMetar(keys, v, obs) == [keys |-> keys, vis |-> v, obs_time |-> obs]

\* datetime.utcnow() - self.obs_time, as the normalized timedelta Python builds
TimeDelta(total) == [days |-> total \div SecondsPerDay, seconds |-> total % SecondsPerDay]

\* Metar.update_age: the value given to self.obs_age
update_age(obs, clock) == TimeDelta(clock - obs).seconds \div 60

\* Metar.__init__ on feed record raw at clock time `clock`
MetarNew(raw, clock) ==
    IF "wind_speed_kt" \in raw.keys /\ "wind_dir_degrees" \notin raw.keys
    THEN [err |-> "KeyError"]
    ELSE [err |-> "none",
          obs_time |-> raw.obs_time,
          obs_age |-> update_age(raw.obs_time, clock),
          temp |-> IF "temp_c" \in raw.keys THEN Sample.temp ELSE NoNum,
          dewpt |-> IF "dewpoint_c" \in raw.keys THEN Sample.dewpt ELSE NoNum,
          hasRh |-> "temp_c" \in raw.keys /\ "dewpoint_c" \in raw.keys,
          rh |-> IF "temp_c" \in raw.keys /\ "dewpoint_c" \in raw.keys
                 THEN Sample.rh ELSE NoNum,
          wind |-> IF "wind_speed_kt" \in raw.keys
                   THEN IF "wind_gust_kt" \in raw.keys
                        THEN WindNew(Sample.wind_dir, Sample.wind_speed,
                                     [present |-> TRUE, text |-> Dec(Sample.gust)])
                        ELSE WindNew(Sample.wind_dir, Sample.wind_speed, NoGust)
                   ELSE NoWind,
          vis |-> IF "visibility_statute_mi" \in raw.keys THEN raw.vis ELSE NoVis,
          alt |-> IF "altim_in_hg" \in raw.keys THEN Sample.altim ELSE NoNum,
          sky |-> IF "sky_condition" \in raw.keys THEN SkyNew(Sample.sky) ELSE NoSky,
          wx_string |-> IF "wx_string" \in raw.keys THEN Sample.wx ELSE <<>>]

NoMetar == [err |-> "nometar"]

NoStamp == [at |-> NotCalled, age |-> NotCalled, mark |-> "none"]

\* Metar.format_timestamp: the age it computes and the emphasis it applies
format_timestamp(m, clock) ==
    LET age == update_age(m.obs_time, clock) IN
    [at |-> clock, age |-> age,
     mark |-> IF age > TIMESTAMP_AGE_OLD THEN "OLD"
              ELSE IF age > TIMESTAMP_AGE_STALE THEN "STALE"
              ELSE "plain"]

\* str() of a float 0 <= v < 1 given in hundredths
SmallFloatRepr(v) ==
    IF v % 10 = 0 THEN <<"0", ".">> \o Dec(v \div 10)
    ELSE <<"0", ".">> \o Fmt0(v, 2)

NoVisText == [err |-> "none", cat |-> "notcalled", text |-> <<>>]

\* Metar.format_vis: the CAT_COLOR marker applied (cat) and the text inside it;
\* the last branch returns self.vis itself, with no marker
format_vis(v) ==
    IF v = NoVis THEN [err |-> "TypeError", cat |-> "none", text |-> <<>>]
    ELSE IF v >= 500 THEN [err |-> "none", cat |-> "VFR", text |-> <<" ">> \o Fmt0(v \div 100, 2)]
    ELSE IF v >= 300 THEN [err |-> "none", cat |-> "MVFR", text |-> <<" ">> \o Fmt0(v \div 100, 2)]
    ELSE IF v >= 100 THEN [err |-> "none", cat |-> "IFR", text |-> <<" ">> \o Fmt0(v \div 100, 2)]
    ELSE IF v = 25 THEN [err |-> "none", cat |-> "LIFR", text |-> <<"1", "/", "4">>]
    ELSE IF v = 50 THEN [err |-> "none", cat |-> "LIFR", text |-> <<"1", "/", "2">>]
    ELSE IF v = 75 THEN [err |-> "none", cat |-> "LIFR", text |-> <<"3", "/", "4">>]
    ELSE [err |-> "none", cat |-> "none", text |-> SmallFloatRepr(v)]

\* Metar.format_ceiling
format_ceiling(sk) ==
    IF sk.err # "none" THEN [err |-> "AttributeError", cat |-> "none", text |-> <<>>]
    ELSE LET c == ceiling(sk.layers) IN
         IF c # 0
         THEN [err |-> "none",
               cat |-> IF sk.layers[c].alt > 3000 THEN "VFR"
                       ELSE IF sk.layers[c].alt > 1000 THEN "MVFR"
                       ELSE IF sk.layers[c].alt >= 500 THEN "IFR"
                       ELSE "LIFR",
               text |-> <<" ">> \o PadRight(LayerRepr(sk.layers[c]), 9)]
         ELSE IF ceiling_or_lowest(sk.layers) = RaisedText
         THEN [err |-> "TypeError", cat |-> "none", text |-> <<>>]
         ELSE [err |-> "none", cat |-> "VFR",
               text |-> <<" ">> \o PadRight(ceiling_or_lowest(sk.layers), 9)]

\* Metar.temp_and_dewpt (temperatures of the explored records are >= 0)
temp_and_dewpt(m) ==
    (IF m.temp # NoNum THEN Fmt0(m.temp, 2) ELSE <<"x", "x">>)
    \o <<"/">> \o
    (IF m.dewpt # NoNum THEN Fmt0(m.dewpt, 2) ELSE <<"x", "x">>)

\* str(self.wind)
WindStr(w) == IF w = NoWind THEN <<"N", "o", "n", "e">> ELSE WindRepr(w)

NoLine == [err |-> "notcalled"]

Failed(e, col) == [err |-> e, at |-> col]

\* Metar.text_out: the columns of the line, or the first error its f-string
\* raises, the columns being evaluated left to right
text_out(m, clock) ==
    IF m.alt = NoNum THEN Failed("TypeError", "alt")
    ELSE IF ~m.hasRh THEN Failed("AttributeError", "rh")
    ELSE IF format_vis(m.vis).err # "none" THEN Failed(format_vis(m.vis).err, "vis")
    ELSE IF format_ceiling(m.sky).err # "none" THEN Failed(format_ceiling(m.sky).err, "ceil")
    ELSE [err |-> "none",
          time |-> format_timestamp(m, clock).mark,
          wind |-> PadRight(WindStr(m.wind), 9),
          alt |-> Dec(m.alt \div 100) \o <<".">> \o Fmt0(m.alt % 100, 2),
          temp |-> PadRight(temp_and_dewpt(m), 7),
          rh |-> PadLeft(Dec(m.rh), 3, " ") \o <<"%">>,
          vis |-> format_vis(m.vis),
          ceil |-> format_ceiling(m.sky),
          wx |-> m.wx_string]

Init ==
    /\ obj = "none"
    /\ airports = <<>>
    /\ metars_dict = EmptyDict
    /\ call = NoCall
    /\ resp = [ok |-> FALSE, results |-> <<>>]
    /\ ret = "none"
    /\ lastRequest = <<>>
    /\ nRequests = 0
    /\ nUpdates = 0
    /\ lastOk = [seen |-> FALSE, ids |-> <<>>]
    /\ dropped = {}
    /\ everReturned = {}
    /\ wind = NoWind
    /\ wind_text = NoText
    /\ sky = NoSky
    /\ sky_ceiling = NotCalled
    /\ sky_col = NoText
    /\ now = 0
    /\ metar = NoMetar
    /\ stamp = NoStamp
    /\ vis_text = NoVisText
    /\ line = NoLine

\* Metars(arg) with no string in arg: TypeError at line 276, nothing requested
MetarsInitTypeError ==
    /\ obj = "none"
    /\ \E arg \in Args :
          /\ InitAirports(arg.items) = <<>>
          /\ call' = [op |-> "init", arg |-> arg]
    /\ obj' = "failed"
    /\ ret' = "TypeError"
    /\ UNCHANGED <<airports, metars_dict, resp, lastRequest, nRequests, nUpdates,
                   lastOk, dropped, everReturned>>
    /\ UNCHANGED <<windVars, skyVars, metarVars>>

\* Metars(arg), lines 263-280, the update() of line 280 included
MetarsInit ==
    /\ obj = "none"
    /\ \E arg \in Args :
          LET ap == InitAirports(arg.items) IN
          /\ ap # <<>>
          /\ \E r \in Responses(RequestFor(ap), nUpdates + 1) :
                LET out == update(ap, EmptyDict, r) IN
                /\ obj' = IF out.ret = "ParseError" THEN "failed" ELSE "live"
                /\ airports' = out.airports
                /\ metars_dict' = out.metars_dict
                /\ ret' = out.ret
                /\ lastRequest' = RequestFor(ap)
                /\ History(ap, r, out)
                /\ resp' = r
          /\ call' = [op |-> "init", arg |-> arg]
    /\ nRequests' = nRequests + 1
    /\ nUpdates' = nUpdates + 1
    /\ UNCHANGED <<windVars, skyVars, metarVars>>

\* metars.update() on a built set
MetarsUpdate ==
    /\ obj = "live"
    /\ nUpdates < MaxUpdates
    /\ \E r \in Responses(RequestFor(airports), nUpdates + 1) :
          LET out == update(airports, metars_dict, r) IN
          /\ airports' = out.airports
          /\ metars_dict' = out.metars_dict
          /\ ret' = out.ret
          /\ History(airports, r, out)
          /\ resp' = r
    /\ lastRequest' = RequestFor(airports)
    /\ call' = [op |-> "update"]
    /\ nRequests' = nRequests + 1
    /\ nUpdates' = nUpdates + 1
    /\ obj' = obj
    /\ UNCHANGED <<windVars, skyVars, metarVars>>

Next ==
    \/ MetarsInitTypeError
    \/ MetarsInit
    \/ MetarsUpdate

Spec == Init /\ [][Next]_vars

-----------------------------------------------------------------------------
(* Wind: construction and rendering *)

\* Wind(direction, speed[, gust])
WindInit ==
    /\ wind = NoWind
    /\ \E d \in Dirs, sp \in Speeds : \E g \in Gusts(sp) : wind' = WindNew(d, sp, g)
    /\ UNCHANGED <<wind_text, setVars, skyVars, metarVars>>

\* repr(wind)
WindShow ==
    /\ wind # NoWind
    /\ wind_text' = WindRepr(wind)
    /\ UNCHANGED <<wind, setVars, skyVars, metarVars>>

NextWind == WindInit \/ WindShow

SpecWind == Init /\ [][NextWind]_vars

-----------------------------------------------------------------------------
(* Sky: construction, ceiling() and ceiling_or_lowest() *)

\* Sky(sky_condition)
SkyInit ==
    /\ sky = NoSky
    /\ \E raw \in RawSkies : sky' = SkyNew(raw)
    /\ UNCHANGED <<sky_ceiling, sky_col, setVars, windVars, metarVars>>

\* sky.ceiling()
SkyCeiling ==
    /\ sky.err = "none"
    /\ sky_ceiling' = ceiling(sky.layers)
    /\ UNCHANGED <<sky, sky_col, setVars, windVars, metarVars>>

\* sky.ceiling_or_lowest()
SkyCeilingOrLowest ==
    /\ sky.err = "none"
    /\ sky_col' = ceiling_or_lowest(sky.layers)
    /\ UNCHANGED <<sky, sky_ceiling, setVars, windVars, metarVars>>

NextSky == SkyInit \/ SkyCeiling \/ SkyCeilingOrLowest

SpecSky == Init /\ [][NextSky]_vars

-----------------------------------------------------------------------------
(* Metar: observation age and the timestamp emphasis *)

ParseLags == {0, 59, 61}

TickMinutes == {20, 60, 1440}

AllKeys == OptionalKeys

\* Metar(record), of a complete record observed a little before the parse
MetarInitAged ==
    /\ metar = NoMetar
    /\ \E lag \in ParseLags : metar' = MetarNew(RawMetar(AllKeys, Sample.vis, now - lag), now)
    /\ UNCHANGED <<now, stamp, vis_text, line, setVars, windVars, skyVars>>

\* the clock advances while the Metar is held
Tick ==
    /\ metar # NoMetar
    /\ \E d \in TickMinutes :
          /\ now + d * 60 <= MaxClockMin * 60
          /\ now' = now + d * 60
    /\ UNCHANGED <<metar, stamp, vis_text, line, setVars, windVars, skyVars>>

\* metar.format_timestamp(), which calls update_age()
MetarFormatTimestamp ==
    /\ metar.err = "none"
    /\ stamp' = format_timestamp(metar, now)
    /\ metar' = [metar EXCEPT !.obs_age = update_age(metar.obs_time, now)]
    /\ UNCHANGED <<now, vis_text, line, setVars, windVars, skyVars>>

NextAge == MetarInitAged \/ Tick \/ MetarFormatTimestamp

SpecAge == Init /\ [][NextAge]_vars

-----------------------------------------------------------------------------
(* Metar: visibility rendering *)

\* Metar(record), of a complete record with some visibility
MetarInitVis ==
    /\ metar = NoMetar
    /\ \E v \in 0..MaxVis : metar' = MetarNew(RawMetar(AllKeys, v, now - Sample.lag), now)
    /\ UNCHANGED <<now, stamp, vis_text, line, setVars, windVars, skyVars>>

\* metar.format_vis()
MetarFormatVis ==
    /\ metar.err = "none"
    /\ vis_text' = format_vis(metar.vis)
    /\ UNCHANGED <<now, metar, stamp, line, setVars, windVars, skyVars>>

NextVis == MetarInitVis \/ MetarFormatVis

SpecVis == Init /\ [][NextVis]_vars

-----------------------------------------------------------------------------
(* Metar: records with optional fields missing, and text_out *)

\* Metar(record), of a record with any set of its optional fields
MetarInitFields ==
    /\ metar = NoMetar
    /\ \E keys \in SUBSET OptionalKeys :
          metar' = MetarNew(RawMetar(keys, Sample.vis, now - Sample.lag), now)
    /\ UNCHANGED <<now, stamp, vis_text, line, setVars, windVars, skyVars>>

\* metar.text_out(), which calls update_age() and format_timestamp()
MetarTextOut ==
    /\ metar.err = "none"
    /\ line' = text_out(metar, now)
    /\ metar' = [metar EXCEPT !.obs_age = update_age(metar.obs_time, now)]
    /\ UNCHANGED <<now, stamp, vis_text, setVars, windVars, skyVars>>

NextRecord == MetarInitFields \/ MetarTextOut

SpecRecord == Init /\ [][NextRecord]_vars

-----------------------------------------------------------------------------
(* Claims about the Metars set, checked under Spec *)

Keys(d) == DOMAIN d

IsStr(e) == e.isStr

\* the string elements of a constructor argument, in order, as values
StrItems(arg) ==
    LET sel == SelectSeq(arg.items, IsStr) IN [i \in DOMAIN sel |-> sel[i].v]

HasDuplicate(q) == \E i, j \in DOMAIN q : i # j /\ q[i] = q[j]

\* C1 as claimed: once an update() has returned True, the stations of the
\* resolved map are exactly those of the latest successful response, and so is
\* the effective station list.
C1_ResolvedIsLatestResponse ==
    (obj = "live" /\ lastOk.seen) =>
        /\ Keys(metars_dict) = Range(lastOk.ids)
        /\ Range(airports) = Range(lastOk.ids)

\* C1 amended: once an update() has returned True, the effective station list
\* is the id list of the latest successful response, the resolved map holds an
\* entry for each of them, and every entry of the map is for a station the
\* feed returned to this set (entries of earlier responses are kept).
C1_ResolvedCoversLatestResponse ==
    (obj = "live" /\ lastOk.seen) =>
        /\ airports = lastOk.ids
        /\ Range(lastOk.ids) \subseteq Keys(metars_dict)
        /\ Keys(metars_dict) \subseteq everReturned

\* a second successful update() returned fewer stations than the map holds
C1_Witness ==
    /\ obj = "live" /\ lastOk.seen /\ ret = "True" /\ call.op = "update"
    /\ Range(airports) # Keys(metars_dict)
    /\ Range(airports) \subseteq Keys(metars_dict)

\* C2: an update() whose feed call fails, or succeeds with no result, returns
\* False and leaves the resolved map and the station list as they were (for the
\* update() of the constructor: the empty map and the constructed list).
C2_FailedUpdateChangesNothing ==
    [][(nUpdates' = nUpdates + 1 /\ (~resp'.ok \/ resp'.results = <<>>)) =>
          /\ ret' = "False"
          /\ obj = "live" => (metars_dict' = metars_dict /\ airports' = airports)
          /\ obj = "none" => (metars_dict' = EmptyDict /\ airports' = lastRequest')]_vars

\* an update() on a set with resolved entries got an empty successful response
C2_Witness ==
    /\ call.op = "update" /\ ret = "False" /\ resp.ok /\ resp.results = <<>>
    /\ Keys(metars_dict) # {} /\ airports # <<>>

\* C3: every update() issues exactly one request, naming the current station
\* list: the constructed list until an update() has returned True, afterwards
\* the ids of the latest successful response; a station that a successful
\* update() requested and did not get is in no later request.
C3_OneRequestForCurrentList ==
    [][nUpdates' = nUpdates + 1 =>
          /\ nRequests' = nRequests + 1
          /\ obj = "live" => lastRequest' = airports
          /\ lastRequest' = (IF lastOk.seen THEN lastOk.ids
                             ELSE IF obj = "live" THEN lastRequest
                             ELSE StrItems(call'.arg))
          /\ Range(lastRequest') \cap dropped = {}]_vars

\* an update() was issued after an earlier one had dropped a station
C3_Witness ==
    /\ call.op = "update" /\ nRequests = nUpdates /\ nUpdates >= 2
    /\ dropped # {} /\ dropped \cap Range(lastRequest) = {}
    /\ lastRequest # <<>>

\* C4 as claimed: construction yields a list without duplicates and without
\* empty strings, and fails exactly when the argument holds no non-empty string.
C4_NormalizedDedupNonEmpty ==
    call.op = "init" =>
        /\ nRequests = 1 => (~HasDuplicate(lastRequest) /\ "" \notin Range(lastRequest))
        /\ obj = "failed" <=> (Range(StrItems(call.arg)) \ {""} = {})

\* C4 amended: construction yields the string elements of the argument in
\* order (non-strings dropped, duplicates and empty strings kept), and raises
\* TypeError exactly when there is none.
C4_NormalizedStringElements ==
    call.op = "init" =>
        /\ ret = "TypeError" <=> StrItems(call.arg) = <<>>
        /\ ret = "TypeError" => (obj = "failed" /\ nRequests = 0)
        /\ ret # "TypeError" => (nRequests = 1 /\ lastRequest = StrItems(call.arg))

\* a list with a non-string and a repeated station was accepted
C4_Witness ==
    /\ call.op = "init" /\ obj = "live"
    /\ Len(lastRequest) < Len(call.arg.items)
    /\ HasDuplicate(lastRequest)

\* C10: when one record of a response of several fails to parse in update(),
\* every other record of that response is stored: none is lost and the map is
\* not left half updated.
C10_ParseErrorIsLocal ==
    (call.op = "update" /\ ret = "ParseError" /\ Len(resp.results) > 1) =>
        \A i \in DOMAIN resp.results :
            ~resp.results[i].bad =>
                /\ resp.results[i].station_id \in Keys(metars_dict)
                /\ metars_dict[resp.results[i].station_id].gen = resp.results[i].gen

-----------------------------------------------------------------------------
(* Claims about Wind, checked under SpecWind *)

IsDigits(t) == \A i \in DOMAIN t : \E d \in 1..10 : DigitChars[d] = t[i]

DigitValue(c) == (CHOOSE d \in 1..10 : DigitChars[d] = c) - 1

RECURSIVE Value(_)
Value(t) == IF t = <<>> THEN 0
            ELSE 10 * Value(SubSeq(t, 1, Len(t) - 1)) + DigitValue(t[Len(t)])

\* C9: the rendering is CALM exactly when the speed is 0 and there is no gust;
\* otherwise it is the direction on 3 digits (VRB for 0), '@', the speed on at
\* least 2 digits, and 'G' and the gust exactly when there is a gust.
C9_WindRendering ==
    wind_text # NoText =>
        LET t == wind_text
            calm == wind.speed = 0 /\ ~wind.gust.present
            sw == IF wind.speed < 100 THEN 2 ELSE 3
        IN /\ (t = <<"C", "A", "L", "M">>) <=> calm
           /\ ~calm =>
                /\ Len(t) >= 4 + sw
                /\ IF wind.dir = 0 THEN SubSeq(t, 1, 3) = <<"V", "R", "B">>
                   ELSE IsDigits(SubSeq(t, 1, 3)) /\ Value(SubSeq(t, 1, 3)) = wind.dir
                /\ t[4] = "@"
                /\ IsDigits(SubSeq(t, 5, 4 + sw))
                /\ Value(SubSeq(t, 5, 4 + sw)) = wind.speed
                /\ IF wind.gust.present
                   THEN SubSeq(t, 5 + sw, Len(t)) = <<"G">> \o wind.gust.text
                   ELSE Len(t) = 4 + sw

\* a wind of speed 0 with a gust was rendered
C9_Witness ==
    /\ wind_text # NoText /\ wind.speed = 0 /\ wind.gust.present /\ wind.dir = 0
    /\ wind_text[Len(wind_text)] = "2"

-----------------------------------------------------------------------------
(* Claims about Sky, checked under SpecSky *)

CeilingLayers(layers) ==
    {i \in DOMAIN layers : layers[i].cover \in {"BKN", "OVC", "OVX"}}

\* position i is the lowest of the positions P of layers, the first on a tie
FirstLowest(layers, P, i) ==
    /\ i \in P
    /\ \A j \in P : \/ layers[i].alt < layers[j].alt
                    \/ (layers[i].alt = layers[j].alt /\ i <= j)

-----------------------------------------------------------------------------
(* Claims about Metar, checked under SpecAge, SpecVis and SpecRecord *)

\* C6: the age a render uses is the whole elapsed time now - obs_time in
\* minutes, rounded down, also past one day, and the timestamp is plain up to
\* 20 minutes, stale up to 60 and old beyond.
C6_AgeIsElapsedMinutes ==
    stamp # NoStamp =>
        LET elapsed == (stamp.at - metar.obs_time) \div 60 IN
        /\ stamp.age = elapsed
        /\ stamp.mark = (IF elapsed > 60 THEN "OLD"
                         ELSE IF elapsed > 20 THEN "STALE" ELSE "plain")

\* C7: format_vis() marks a visibility v as VFR for v >= 5, MVFR for
\* 3 <= v < 5, IFR for 1 <= v < 3 and LIFR for every v < 1, and writes 0.25,
\* 0.5 and 0.75 as 1/4, 1/2 and 3/4.
C7_VisibilityTier ==
    vis_text # NoVisText =>
        LET v == metar.vis IN
        /\ vis_text.err = "none"
        /\ vis_text.cat = (IF v >= 500 THEN "VFR" ELSE IF v >= 300 THEN "MVFR"
                           ELSE IF v >= 100 THEN "IFR" ELSE "LIFR")
        /\ v = 25 => vis_text.text = <<"1", "/", "4">>
        /\ v = 50 => vis_text.text = <<"1", "/", "2">>
        /\ v = 75 => vis_text.text = <<"3", "/", "4">>

\* C5: a record with all mandatory fields and any set of optional fields is
\* built and rendered by text_out() without an error, and a field it lacks
\* shows as a placeholder in its column.
C5_MissingFieldsRender ==
    /\ metar # NoMetar => metar.err = "none"
    /\ line # NoLine =>
          /\ line.err = "none"
          /\ metar.wind = NoWind => line.wind = PadRight(<<"N", "o", "n", "e">>, 9)
          /\ metar.temp = NoNum => SubSeq(line.temp, 1, 2) = <<"x", "x">>
          /\ metar.dewpt = NoNum => SubSeq(line.temp, Len(temp_and_dewpt(metar)) - 1,
                                           Len(temp_and_dewpt(metar))) = <<"x", "x">>

====
